---- MODULE Spec2Model ----
(***************************************************************************)
(* Model of Plugin/openvdbi/Importer/oiVolume.cpp: the ValueRange          *)
(* accumulator, the bounding-box resolver, the two parallel passes of      *)
(* sampleVolume (sample + reduce, then normalize) and the oiVolume facade  *)
(* (setScaleFactor, fillTextureBuffer).                                    *)
(*                                                                         *)
(* Floats are modelled symbolically.  A value is a record [k, n, d]:       *)
(*   k = "num"      the rational n/d (d >= 1, reduced); raw samples are    *)
(*                  small integers, which a float holds exactly            *)
(*   k = "FLT_MIN"  n * numeric_limits<float>::min(), n in {1,-1}: the     *)
(*                  smallest positive normalized float, 2^-126             *)
(*   k = "FLT_MAX"  n * numeric_limits<float>::max(), n in {1,-1}          *)
(*   k = "inf"      n * infinity, n in {1,-1}                              *)
(*   k = "nan"      the result of 0/0                                      *)
(***************************************************************************)
EXTENDS Integers, Sequences, FiniteSets

\* ------------------------------------------------------------------ bounds
MaxDim == 2          \* lattice extents are drawn from 0..MaxDim per axis
MaxVoxels == 4       \* lattices with more cells than this are not explored
NumThreads == 2      \* threads of the TBB pool; a parallel_for makes at most
                     \* this many leaf tasks
IntBits == 4         \* width of the model's int (metadata coordinates)
MaxSample == 2       \* SpecRange feeds the values -MaxSample .. MaxSample to addValue

\* --------------------------------------------------------------- constants
Channels == 4
TextureFormat == 20

IntMax == 2 ^ (IntBits - 1) - 1
IntMin == 0 - 2 ^ (IntBits - 1)

Threads == 1 .. NumThreads

\* ------------------------------------------------------------ float layer
Abs(i) == IF i < 0 THEN 0 - i ELSE i

RECURSIVE Gcd(_, _)
Gcd(a, b) == IF b = 0 THEN a ELSE Gcd(b, a % b)

Num(n, d) ==
    LET g == Gcd(Abs(n), Abs(d))
        s == IF d < 0 THEN 0 - 1 ELSE 1
    IN  [k |-> "num", n |-> (s * n) \div g, d |-> (s * d) \div g]

Int2F(i) == [k |-> "num", n |-> i, d |-> 1]
NaN == [k |-> "nan", n |-> 0, d |-> 0]
Inf(s) == [k |-> "inf", n |-> s, d |-> 0]
Special(kind, s) == [k |-> kind, n |-> s, d |-> 1]

numeric_limits_max == Special("FLT_MAX", 1)
numeric_limits_min == Special("FLT_MIN", 1)

Sgn(x) == IF x.n > 0 THEN 1 ELSE IF x.n < 0 THEN 0 - 1 ELSE 0

\* Order of magnitude of a non-NaN value: 0 < FLT_MIN < |n/d| < FLT_MAX < inf.
Mag(x) ==
    CASE x.k = "num" -> IF x.n = 0 THEN 0 ELSE 2
      [] x.k = "FLT_MIN" -> 1
      [] x.k = "FLT_MAX" -> 3
      [] x.k = "inf" -> 4

\* operator< on floats; every comparison with NaN is false.
Less(x, y) ==
    /\ x.k # "nan"
    /\ y.k # "nan"
    /\ \/ Sgn(x) * Mag(x) < Sgn(y) * Mag(y)
       \/ /\ x.k = "num"
          /\ y.k = "num"
          /\ x.n * y.d < y.n * x.d

Neg(x) == IF x.k = "nan" THEN x ELSE [x EXCEPT !.n = 0 - x.n]

\* Float addition, round to nearest.  Operands of different magnitude classes:
\* the smaller one is below half an ulp of the larger and is absorbed.
FAdd(x, y) ==
    CASE x.k = "nan" \/ y.k = "nan" -> NaN
      [] x.k = "inf" /\ y.k = "inf" -> IF x.n = y.n THEN x ELSE NaN
      [] x.k # "nan" /\ y.k # "nan" /\ Mag(x) > Mag(y) -> x
      [] x.k # "nan" /\ y.k # "nan" /\ Mag(x) < Mag(y) -> y
      [] x.k = "num" /\ y.k = "num" -> Num(x.n * y.d + y.n * x.d, x.d * y.d)
      [] x.k = "FLT_MAX" /\ y.k = "FLT_MAX" -> IF x.n = y.n THEN Inf(x.n) ELSE Int2F(0)
      [] x.k = "FLT_MIN" /\ y.k = "FLT_MIN" /\ x.n # y.n -> Int2F(0)

FSub(x, y) == FAdd(x, Neg(y))

\* Float division.  0/0 is NaN, x/0 is +-inf; neither traps.  A quotient by
\* FLT_MIN = 2^-126 overflows to +-inf once |x| >= 4.
FDiv(x, y) ==
    CASE x.k = "nan" \/ y.k = "nan" -> NaN
      [] x.k = "inf" /\ y.k = "inf" -> NaN
      [] x.k # "nan" /\ y.k # "nan" /\ Mag(x) = 0 /\ Mag(y) = 0 -> NaN
      [] x.k # "nan" /\ y.k # "nan" /\ Mag(x) > 0 /\ Mag(y) = 0 -> Inf(Sgn(x))
      [] x.k # "nan" /\ y.k # "nan" /\ Mag(x) = 0 /\ Mag(y) > 0 -> Int2F(0)
      [] x.k = "inf" /\ y.k \in {"num", "FLT_MIN", "FLT_MAX"} /\ Mag(y) > 0 ->
            Inf(Sgn(x) * Sgn(y))
      [] x.k \in {"num", "FLT_MIN", "FLT_MAX"} /\ Mag(x) > 0 /\ y.k = "inf" -> Int2F(0)
      [] x.k = "num" /\ y.k = "num" /\ x.n # 0 /\ y.n # 0 -> Num(x.n * y.d, x.d * y.n)
      [] x.k \in {"FLT_MIN", "FLT_MAX"} /\ y.k = x.k -> Int2F(x.n * y.n)
      [] x.k = "num" /\ y.k = "FLT_MIN" /\ Abs(x.n) >= 4 * x.d -> Inf(Sgn(x) * Sgn(y))

\* Product of a double and a float; the factors of the model are rationals.
FMul(x, y) ==
    CASE x.k = "num" /\ y.k = "num" -> Num(x.n * y.n, x.d * y.d)

\* std::min(a, b) is (b < a) ? b : a;  std::max(a, b) is (a < b) ? b : a.
std_min(a, b) == IF Less(b, a) THEN b ELSE a
std_max(a, b) == IF Less(a, b) THEN b ELSE a

\* ------------------------------------------------------------- ValueRange
ValueRange_default == [m_min |-> numeric_limits_max, m_max |-> numeric_limits_min]

getMin(r) == r.m_min
getMax(r) == r.m_max

addValue(r, value) ==
    [m_min |-> std_min(r.m_min, value), m_max |-> std_max(r.m_max, value)]

unlerp(a, b, x) == FDiv(FSub(x, a), FSub(b, a))

\* ------------------------------------------------------- grid (collaborator)
\* A grid is its stored metadata (either key may be absent), the voxel size of
\* its index-to-world scale map and its scalar field.  The field is given by
\* the value the world-space sampler returns at the centre of each lattice
\* cell: base + slope . cell.
Coord3(x, y, z) == <<x, y, z>>

ValidMeta ==
    [hasMin |-> TRUE, hasMax |-> TRUE, voxelSize |-> 2,
     file_bbox_min |-> Coord3(0 - 1, 0, 1), file_bbox_max |-> Coord3(1, 3, 2)]

MetaChoices ==
    { ValidMeta,
      [hasMin |-> FALSE, hasMax |-> TRUE, voxelSize |-> 1,
       file_bbox_min |-> Coord3(0, 0, 0), file_bbox_max |-> Coord3(1, 1, 1)],
      [hasMin |-> TRUE, hasMax |-> FALSE, voxelSize |-> 1,
       file_bbox_min |-> Coord3(0, 0, 0), file_bbox_max |-> Coord3(1, 1, 1)],
      [hasMin |-> TRUE, hasMax |-> TRUE, voxelSize |-> 1,
       file_bbox_min |-> Coord3(0, IntMax, 0), file_bbox_max |-> Coord3(1, 1, 1)],
      [hasMin |-> TRUE, hasMax |-> TRUE, voxelSize |-> 1,
       file_bbox_min |-> Coord3(0, 0, 0), file_bbox_max |-> Coord3(1, 1, IntMin)],
      [hasMin |-> TRUE, hasMax |-> TRUE, voxelSize |-> 1,
       file_bbox_min |-> Coord3(2, 0, 0), file_bbox_max |-> Coord3(0, 1, 1)],
      \* neither key stored; a sentinel component on each of the other axes; a
      \* sentinel in file_bbox_min with file_bbox_max missing
      [hasMin |-> FALSE, hasMax |-> FALSE, voxelSize |-> 1,
       file_bbox_min |-> Coord3(0, 0, 0), file_bbox_max |-> Coord3(1, 1, 1)],
      [hasMin |-> TRUE, hasMax |-> TRUE, voxelSize |-> 1,
       file_bbox_min |-> Coord3(IntMax, 0, 0), file_bbox_max |-> Coord3(1, 1, 1)],
      [hasMin |-> TRUE, hasMax |-> TRUE, voxelSize |-> 1,
       file_bbox_min |-> Coord3(0, 0, IntMax), file_bbox_max |-> Coord3(1, 1, 1)],
      [hasMin |-> TRUE, hasMax |-> TRUE, voxelSize |-> 1,
       file_bbox_min |-> Coord3(0, 0, 0), file_bbox_max |-> Coord3(IntMin, 1, 1)],
      [hasMin |-> TRUE, hasMax |-> TRUE, voxelSize |-> 1,
       file_bbox_min |-> Coord3(0, 0, 0), file_bbox_max |-> Coord3(1, IntMin, 1)],
      [hasMin |-> TRUE, hasMax |-> FALSE, voxelSize |-> 1,
       file_bbox_min |-> Coord3(0, IntMax, 0), file_bbox_max |-> Coord3(1, 1, 1)],
      \* inverted on the other axes
      [hasMin |-> TRUE, hasMax |-> TRUE, voxelSize |-> 1,
       file_bbox_min |-> Coord3(0, 1, 0), file_bbox_max |-> Coord3(1, 0, 1)],
      [hasMin |-> TRUE, hasMax |-> TRUE, voxelSize |-> 1,
       file_bbox_min |-> Coord3(0, 0, 3), file_bbox_max |-> Coord3(1, 1, 1)],
      \* extreme values that are no sentinel where they stand: a valid box
      [hasMin |-> TRUE, hasMax |-> TRUE, voxelSize |-> 1,
       file_bbox_min |-> Coord3(IntMin, 0, 0), file_bbox_max |-> Coord3(IntMax, 0, 1)] }

Field(base, slope) == [base |-> base, slope |-> slope]

Flat == Coord3(0, 0, 0)
Rising == Coord3(1, 1, 1)
Falling == Coord3(0 - 1, 0 - 1, 0 - 1)

\* Constant fields (positive, zero, negative), fields that are negative
\* everywhere, fields whose largest value is zero, and fields of mixed sign.
Fields ==
    { Field(2, Flat), Field(0, Flat), Field(0 - 1, Flat),
      Field(0 - 3, Rising), Field(0 - 1, Rising), Field(1, Rising),
      Field(2, Falling) }

Dot(a, b) == a[1] * b[1] + a[2] * b[2] + a[3] * b[3]

\* ------------------------------------------------------------- CoordBBox
CoordBBox(min_, max_) == [min |-> min_, max |-> max_]

\* openvdb::CoordBBox(): the distinguished empty box.
CoordBBox_default ==
    CoordBBox(Coord3(IntMax, IntMax, IntMax), Coord3(IntMin, IntMin, IntMin))

\* Mutant of empty: a box counts as empty only when every axis is inverted.
empty_allAxes(bbox) == \A i \in 1 .. 3 : bbox.min[i] > bbox.max[i]

empty(bbox) == \E i \in 1 .. 3 : bbox.min[i] > bbox.max[i]

volume(bbox) ==
      (bbox.max[1] - bbox.min[1] + 1)
    * (bbox.max[2] - bbox.min[2] + 1)
    * (bbox.max[3] - bbox.min[3] + 1)

\* Mutant of getIndexSpaceBoundingBox: only the x components are tested for the
\* sentinel values.
getIndexSpaceBoundingBox_xOnly(grid) ==
    LET m == grid.meta IN
    IF ~m.hasMin THEN CoordBBox_default
    ELSE IF m.file_bbox_min[1] = IntMax THEN CoordBBox_default
    ELSE IF ~m.hasMax THEN CoordBBox_default
    ELSE IF m.file_bbox_max[1] = IntMin THEN CoordBBox_default
    ELSE CoordBBox(m.file_bbox_min, m.file_bbox_max)

getIndexSpaceBoundingBox(grid) ==
    LET m == grid.meta IN
    IF ~m.hasMin THEN CoordBBox_default                       \* metaValue throws
    ELSE IF \E i \in 1 .. 3 : m.file_bbox_min[i] = IntMax THEN CoordBBox_default
    ELSE IF ~m.hasMax THEN CoordBBox_default                  \* metaValue throws
    ELSE IF \E i \in 1 .. 3 : m.file_bbox_max[i] = IntMin THEN CoordBBox_default
    ELSE CoordBBox(m.file_bbox_min, m.file_bbox_max)

\* grid.transform().indexToWorld(bbox).extents() for a scale map: the world box
\* is the hull of the transformed corners, so each extent is |max - min| * size.
indexToWorld_extents(grid, bbox) ==
    [i \in 1 .. 3 |-> Int2F(Abs(bbox.max[i] - bbox.min[i]) * grid.meta.voxelSize)]

\* sampling_func(domain_index): the trilinear sample at the centre of the cell.
sampling_func(grid, domain_index) ==
    Int2F(grid.field.base + Dot(grid.field.slope, domain_index))

\* ------------------------------------------------------------------ state
VARIABLES
    m_grid,          \* the grid the volume refers to (fixed at construction)
    m_scaleFactor,   \* oiVolume::m_scaleFactor
    m_summary,       \* *oiVolume::m_summary
    voxels,          \* the caller's destination buffer, data.voxels
    pc,              \* "idle", "sampling" (first pass), "normalizing" (second)
    pending,         \* leaf ranges of the running parallel_for not yet started
    ntasks,          \* leaf ranges the running parallel_for has produced
    running,         \* the leaf tasks in execution, each with its loop cursor
    ranges,          \* tbb::enumerable_thread_specific<FloatRange>, in creation order
    value_range,     \* fillTextureBuffer's value_range (out_value_range)
    scale,           \* fillTextureBuffer's scale
    sampleGrid_ret,  \* what the last sampleGrid call returned ("none": not called)
    tasksStarted,    \* has the last fill started a worker task of either pass?
    wr1,             \* per slot: writes by the sampling pass of this fill
    wr2,             \* per slot: writes by the normalization pass of this fill
    lastDest,        \* data.voxels of the last fillTextureBuffer call
    pre,             \* m_summary as the last fillTextureBuffer call found it
    last,            \* outcome of the last call that passed a buffer
    prev             \* outcome of the call with a buffer before it

vars == <<m_grid, m_scaleFactor, m_summary, voxels, pc, pending, ntasks, running,
          ranges, value_range, scale, sampleGrid_ret, tasksStarted, wr1, wr2,
          lastDest, pre, last, prev>>

ScaleFactors == {Num(1, 1), Num(2, 1), Num(1, 2)}

\* The caller pre-fills the buffer with a value no sample takes.
Sentinel == Int2F(0 - 999)

Max2(a, b) == IF a < b THEN b ELSE a

\* The caller allocates at least width*height*depth*4 slots.
BufLen(w, h, d) == Max2(w, 1) * Max2(h, 1) * Max2(d, 1) * Channels

Slots == DOMAIN voxels

NoWrites == [i \in Slots |-> 0]

NoCall == [state |-> "none"]
InFlight == [state |-> "in flight"]

\* oiVolumeSummary(voxel_count, width, height, depth, texture_format)
oiVolumeSummary(voxel_count, w, h, d, texture_format) ==
    [voxel_count |-> voxel_count, width |-> w, height |-> h, depth |-> d,
     texture_format |-> texture_format,
     min_value |-> Int2F(0), max_value |-> Int2F(0),
     x_scale |-> Int2F(0), y_scale |-> Int2F(0), z_scale |-> Int2F(0)]

LatticeChoices ==
    { e \in (0 .. MaxDim) \X (0 .. MaxDim) \X (0 .. MaxDim) :
        e[1] * e[2] * e[3] <= MaxVoxels }

\* The grids a volume of the given extents is built on.  A field is sampled
\* only when the stored bounds and the lattice are both non-empty; for the
\* other volumes one field stands for all.  The valid bounds other than
\* ValidMeta come with lattices of at most one cell.
Grids(extents) ==
    { g \in [meta : MetaChoices, field : Fields] :
        \/ /\ g.meta = ValidMeta
           /\ \A i \in 1 .. 3 : extents[i] >= 1
        \/ /\ g.field = Field(1, Rising)
           /\ \/ g.meta = ValidMeta
              \/ empty(getIndexSpaceBoundingBox(g))
              \/ extents[1] * extents[2] * extents[3] <= 1 }

\* oiVolume::oiVolume(grid, extents)
Init ==
    \E extents \in LatticeChoices : \E grid \in Grids(extents) :
        /\ m_grid = grid
        /\ m_scaleFactor = Num(1, 1)
        /\ m_summary = oiVolumeSummary(extents[1] * extents[2] * extents[3],
                                       extents[1], extents[2], extents[3],
                                       TextureFormat)
        /\ voxels = [i \in 0 .. BufLen(extents[1], extents[2], extents[3]) - 1 |->
                        Sentinel]
        /\ pc = "idle"
        /\ pending = {}
        /\ ntasks = 0
        /\ running = {}
        /\ ranges = <<>>
        /\ value_range = ValueRange_default
        /\ scale = <<Int2F(0), Int2F(0), Int2F(0)>>
        /\ sampleGrid_ret = "none"
        /\ tasksStarted = FALSE
        /\ wr1 = [i \in 0 .. BufLen(extents[1], extents[2], extents[3]) - 1 |-> 0]
        /\ wr2 = [i \in 0 .. BufLen(extents[1], extents[2], extents[3]) - 1 |-> 0]
        /\ pre = oiVolumeSummary(extents[1] * extents[2] * extents[3],
                                 extents[1], extents[2], extents[3], TextureFormat)
        /\ lastDest = "none"
        /\ last = NoCall
        /\ prev = NoCall

\* ------------------------------------------------------------ sampleVolume
\* Mutant of stride: the row stride is the height instead of the width.
stride_rowByHeight(extents) == Coord3(1, extents[2], extents[1] * extents[2])

\* stride = {1, extents.x(), extents.x() * extents.y()}
stride(extents) == Coord3(1, extents[1], extents[1] * extents[2])

\* linear_index = domain_index.dot(stride) * 4
linear_index(extents, domain_index) == Dot(domain_index, stride(extents)) * Channels

\* Mutant of domain: the upper corner is extents instead of extents - (1,1,1).
domain_inclusive(extents) ==
    CoordBBox(Coord3(0, 0, 0), Coord3(extents[1], extents[2], extents[3]))

\* domain = CoordBBox(Coord(0,0,0), extents - Coord(1,1,1))
domain(extents) ==
    CoordBBox(Coord3(0, 0, 0), Coord3(extents[1] - 1, extents[2] - 1, extents[3] - 1))

\* The cell after domain_index in the z / y / x loop nest over bbox.
NextCell(bbox, c) ==
    IF c[1] < bbox.max[1] THEN Coord3(c[1] + 1, c[2], c[3])
    ELSE IF c[2] < bbox.max[2] THEN Coord3(bbox.min[1], c[2] + 1, c[3])
    ELSE Coord3(bbox.min[1], bbox.min[2], c[3] + 1)

\* The writes of one iteration of the innermost loop: out_samples[linear_index + 0..3].
\* Mutant of WrittenBy: the last channel is left out.
WrittenBy_threeChannels(index) == index .. index + (Channels - 2)

WrittenBy(index) == index .. index + (Channels - 1)

WriteSample(buf, index, sample_value) ==
    [i \in DOMAIN buf |-> IF i \in WrittenBy(index) THEN sample_value ELSE buf[i]]

\* ranges.local(): the calling thread's element, created on first use.  Threads
\* are named in the order of their first call, so thread t owns ranges[t] and a
\* thread that has not called local() yet is the next one, Len(ranges) + 1.
local(rs, t) ==
    IF t <= Len(rs) THEN rs ELSE Append(rs, ValueRange_default)

\* One iteration of the merge loop: A is merged into (a copy of) B by
\* B.addValue(A.getMin()); B.addValue(A.getMax()).
merge(A, B) == addValue(addValue(B, getMin(A)), getMax(A))

\* for (per_thread_range : ranges) { addValue(getMin()); addValue(getMax()); }
RECURSIVE MergeFrom(_, _, _)
MergeFrom(acc, rs, i) ==
    IF i > Len(rs) THEN acc
    ELSE MergeFrom(addValue(addValue(acc, getMin(rs[i])), getMax(rs[i])), rs, i + 1)

\* Mutant of MergeRanges: only the first thread's range is merged.
MergeRanges_firstOnly(rs) == MergeFrom(ValueRange_default, SubSeq(rs, 1, 1), 1)

MergeRanges(rs) == MergeFrom(ValueRange_default, rs, 1)

\* The body of the second parallel_for for one index.
Normalize(buf, range, i) ==
    [buf EXCEPT ![i] = unlerp(getMin(range), getMax(range), buf[i])]

\* ----------------------------------------------------------------- oiVolume
SummaryExtents == Coord3(m_summary.width, m_summary.height, m_summary.depth)

\* Mutant of Publish: the factor is left out of z_scale.
Publish_zUnscaled(summary, range, scale_, factor) ==
    [summary EXCEPT !.min_value = getMin(range),
                    !.max_value = getMax(range),
                    !.x_scale = FMul(scale_[1], factor),
                    !.y_scale = FMul(scale_[2], factor),
                    !.z_scale = scale_[3]]

\* fillTextureBuffer, after sampleGrid: publish the range and the scaled extents.
Publish(summary, range, scale_, factor) ==
    [summary EXCEPT !.min_value = getMin(range),
                    !.max_value = getMax(range),
                    !.x_scale = FMul(scale_[1], factor),
                    !.y_scale = FMul(scale_[2], factor),
                    !.z_scale = FMul(scale_[3], factor)]

\* What a fillTextureBuffer call with a buffer leaves behind.
Outcome(post, buf) ==
    [state |-> "done", factor |-> m_scaleFactor, post |-> post, voxels |-> buf]

\* Mutant of setScaleFactor: the new factor is applied to the summary at once.
setScaleFactor_republishes(scaleFactor) ==
    /\ pc = "idle"
    /\ m_scaleFactor' = scaleFactor
    /\ m_summary' = [m_summary EXCEPT !.x_scale = FMul(@, scaleFactor),
                                      !.y_scale = FMul(@, scaleFactor),
                                      !.z_scale = FMul(@, scaleFactor)]
    /\ UNCHANGED <<m_grid, voxels, pc, pending, ntasks, running, ranges,
                   value_range, scale, sampleGrid_ret, tasksStarted, wr1, wr2,
                   lastDest, pre, last, prev>>

setScaleFactor(scaleFactor) ==
    /\ pc = "idle"
    /\ m_scaleFactor' = scaleFactor
    /\ UNCHANGED <<m_grid, m_summary, voxels, pc, pending, ntasks, running, ranges,
                   value_range, scale, sampleGrid_ret, tasksStarted, wr1, wr2,
                   lastDest, pre, last, prev>>

\* oiVolume::reset(): the body is empty.
reset ==
    /\ pc = "idle"
    /\ UNCHANGED vars

\* Mutant of FillNull: the early return is missing and the call goes on to
\* publish its (untouched) locals.
FillNull_publishes ==
    /\ pc = "idle"
    /\ sampleGrid_ret' = "none"
    /\ tasksStarted' = FALSE
    /\ wr1' = NoWrites
    /\ wr2' = NoWrites
    /\ lastDest' = "null"
    /\ pre' = m_summary
    /\ m_summary' = Publish(m_summary, ValueRange_default, scale, m_scaleFactor)
    /\ UNCHANGED <<m_grid, m_scaleFactor, voxels, pc, pending, ntasks,
                   running, ranges, value_range, scale, last, prev>>

\* fillTextureBuffer with data.voxels == nullptr.
FillNull ==
    /\ pc = "idle"
    /\ sampleGrid_ret' = "none"
    /\ tasksStarted' = FALSE
    /\ wr1' = NoWrites
    /\ wr2' = NoWrites
    /\ lastDest' = "null"
    /\ pre' = m_summary
    /\ UNCHANGED <<m_grid, m_scaleFactor, m_summary, voxels, pc, pending, ntasks,
                   running, ranges, value_range, scale, last, prev>>

\* fillTextureBuffer when sampleGrid finds the grid's bounding box empty.
FillEmptyBBox ==
    LET grid_bbox_is == getIndexSpaceBoundingBox(m_grid)
        scale_ == indexToWorld_extents(m_grid, grid_bbox_is)
        post == Publish(m_summary, ValueRange_default, scale_, m_scaleFactor)
    IN  /\ pc = "idle"
        /\ empty(grid_bbox_is)
        /\ sampleGrid_ret' = "false"
        /\ m_summary' = post
        /\ tasksStarted' = FALSE
        /\ wr1' = NoWrites
        /\ wr2' = NoWrites
        /\ lastDest' = "buffer"
        /\ prev' = last
        /\ pre' = m_summary
        /\ last' = Outcome(post, voxels)
        /\ UNCHANGED <<m_grid, m_scaleFactor, voxels, pc, pending, ntasks, running,
                       ranges, value_range, scale>>

\* fillTextureBuffer when sampleVolume finds the lattice domain empty.  sampleVolume
\* returns false, but sampleGrid then flows off its end without a return statement:
\* the value its caller receives is undefined.
FillEmptyDomain ==
    LET grid_bbox_is == getIndexSpaceBoundingBox(m_grid)
        scale_ == indexToWorld_extents(m_grid, grid_bbox_is)
        post == Publish(m_summary, ValueRange_default, scale_, m_scaleFactor)
    IN  /\ pc = "idle"
        /\ ~empty(grid_bbox_is)
        /\ empty(domain(SummaryExtents))
        /\ sampleGrid_ret' \in {"true", "false"}
        /\ m_summary' = post
        /\ tasksStarted' = FALSE
        /\ wr1' = NoWrites
        /\ wr2' = NoWrites
        /\ lastDest' = "buffer"
        /\ prev' = last
        /\ pre' = m_summary
        /\ last' = Outcome(post, voxels)
        /\ UNCHANGED <<m_grid, m_scaleFactor, voxels, pc, pending, ntasks, running,
                       ranges, value_range, scale>>

\* fillTextureBuffer up to the first tbb::parallel_for of sampleVolume.
FillBegin ==
    LET grid_bbox_is == getIndexSpaceBoundingBox(m_grid) IN
        /\ pc = "idle"
        /\ ~empty(grid_bbox_is)
        /\ ~empty(domain(SummaryExtents))
        /\ value_range' = ValueRange_default
        /\ scale' = indexToWorld_extents(m_grid, grid_bbox_is)
        /\ ranges' = <<>>
        /\ pending' = {domain(SummaryExtents)}
        /\ ntasks' = 1
        /\ pc' = "sampling"
        /\ sampleGrid_ret' = "none"
        /\ tasksStarted' = FALSE
        /\ wr1' = NoWrites
        /\ wr2' = NoWrites
        /\ lastDest' = "buffer"
        /\ prev' = last
        /\ pre' = m_summary
        /\ last' = InFlight
        /\ UNCHANGED <<m_grid, m_scaleFactor, m_summary, voxels, running>>

\* -------------------------------------------------- first pass: sample + reduce
\* Mutant of SplitBox: the two halves share the plane of the cut.
SplitBox_overlapping(bbox, axis, cut) ==
    /\ pc = "sampling"
    /\ bbox \in pending
    /\ ntasks < NumThreads
    /\ bbox.min[axis] <= cut
    /\ cut < bbox.max[axis]
    /\ pending' = (pending \ {bbox}) \cup
                  { CoordBBox(bbox.min, [bbox.max EXCEPT ![axis] = cut]),
                    CoordBBox([bbox.min EXCEPT ![axis] = cut], bbox.max) }
    /\ ntasks' = ntasks + 1
    /\ UNCHANGED <<m_grid, m_scaleFactor, m_summary, voxels, pc, running, ranges,
                   value_range, scale, sampleGrid_ret, tasksStarted, wr1, wr2,
                   lastDest, pre, last, prev>>

\* tbb::parallel_for splits a range it has not started: the box is cut in two
\* along an axis it spans more than one cell of.
SplitBox(bbox, axis, cut) ==
    /\ pc = "sampling"
    /\ bbox \in pending
    /\ ntasks < NumThreads
    /\ bbox.min[axis] <= cut
    /\ cut < bbox.max[axis]
    /\ pending' = (pending \ {bbox}) \cup
                  { CoordBBox(bbox.min, [bbox.max EXCEPT ![axis] = cut]),
                    CoordBBox([bbox.min EXCEPT ![axis] = cut + 1], bbox.max) }
    /\ ntasks' = ntasks + 1
    /\ UNCHANGED <<m_grid, m_scaleFactor, m_summary, voxels, pc, running, ranges,
                   value_range, scale, sampleGrid_ret, tasksStarted, wr1, wr2,
                   lastDest, pre, last, prev>>

\* Mutant of StartSample: a task may be given the accumulator of a thread that
\* is still running another task.
StartSample_sharedAccumulator(t, bbox) ==
    /\ pc = "sampling"
    /\ t <= Len(ranges) + 1
    /\ bbox \in pending
    /\ pending' = pending \ {bbox}
    /\ running' = running \cup {[thread |-> t, bbox |-> bbox, cur |-> bbox.min]}
    /\ ranges' = local(ranges, t)
    /\ tasksStarted' = TRUE
    /\ UNCHANGED <<m_grid, m_scaleFactor, m_summary, voxels, pc, ntasks, value_range,
                   scale, sampleGrid_ret, wr1, wr2, lastDest, pre, last, prev>>

\* A free thread t takes a leaf box and enters the lambda, up to the loops:
\* this_thread_range = ranges.local().
StartSample(t, bbox) ==
    /\ pc = "sampling"
    /\ t <= Len(ranges) + 1
    /\ \A task \in running : task.thread # t
    /\ bbox \in pending
    /\ pending' = pending \ {bbox}
    /\ running' = running \cup {[thread |-> t, bbox |-> bbox, cur |-> bbox.min]}
    /\ ranges' = local(ranges, t)
    /\ tasksStarted' = TRUE
    /\ UNCHANGED <<m_grid, m_scaleFactor, m_summary, voxels, pc, ntasks, value_range,
                   scale, sampleGrid_ret, wr1, wr2, lastDest, pre, last, prev>>

\* One iteration of the innermost loop of the lambda, in the given task.
SampleCell(task) ==
    /\ pc = "sampling"
    /\ task \in running
    /\ LET domain_index == task.cur
           index == linear_index(SummaryExtents, domain_index)
           sample_value == sampling_func(m_grid, domain_index)
           next == NextCell(task.bbox, domain_index)
       IN  /\ voxels' = WriteSample(voxels, index, sample_value)
           /\ ranges' = [ranges EXCEPT ![task.thread] = addValue(@, sample_value)]
           /\ wr1' = [i \in Slots |->
                        IF i \in WrittenBy(index) THEN wr1[i] + 1 ELSE wr1[i]]
           /\ running' = (running \ {task}) \cup
                         (IF next[3] > task.bbox.max[3] THEN {}
                          ELSE {[task EXCEPT !.cur = next]})
    /\ UNCHANGED <<m_grid, m_scaleFactor, m_summary, pc, pending, ntasks, value_range,
                   scale, sampleGrid_ret, tasksStarted, wr2, lastDest, pre, last, prev>>

\* Mutant of JoinAndMerge: the merge loop starts once every partition has been
\* handed out, without waiting for the tasks still running.
JoinAndMerge_noBarrier ==
    /\ pc = "sampling"
    /\ pending = {}
    /\ value_range' = MergeRanges(ranges)
    /\ ranges' = <<>>
    /\ pending' = {[begin |-> 0, end |-> volume(domain(SummaryExtents)) * Channels]}
    /\ ntasks' = 1
    /\ pc' = "normalizing"
    /\ UNCHANGED <<m_grid, m_scaleFactor, m_summary, voxels, running, scale,
                   sampleGrid_ret, tasksStarted, wr1, wr2, lastDest, pre, last, prev>>

\* The first parallel_for has joined: merge the per-thread ranges, then hand the
\* flat index range [0, num_voxels * 4) to the second parallel_for.  ranges is
\* not read again, and the model forgets it here.
JoinAndMerge ==
    /\ pc = "sampling"
    /\ pending = {}
    /\ running = {}
    /\ value_range' = MergeRanges(ranges)
    /\ ranges' = <<>>
    /\ pending' = {[begin |-> 0, end |-> volume(domain(SummaryExtents)) * Channels]}
    /\ ntasks' = 1
    /\ pc' = "normalizing"
    /\ UNCHANGED <<m_grid, m_scaleFactor, m_summary, voxels, running, scale,
                   sampleGrid_ret, tasksStarted, wr1, wr2, lastDest, pre, last, prev>>

\* ------------------------------------------------------ second pass: normalize
\* tbb::blocked_range splits at its middle while it holds more than one index.
SplitRange(r) ==
    /\ pc = "normalizing"
    /\ r \in pending
    /\ ntasks < NumThreads
    /\ r.end - r.begin > 1
    /\ LET middle == r.begin + (r.end - r.begin) \div 2 IN
        pending' = (pending \ {r}) \cup
                   { [begin |-> r.begin, end |-> middle],
                     [begin |-> middle, end |-> r.end] }
    /\ ntasks' = ntasks + 1
    /\ UNCHANGED <<m_grid, m_scaleFactor, m_summary, voxels, pc, running, ranges,
                   value_range, scale, sampleGrid_ret, tasksStarted, wr1, wr2,
                   lastDest, pre, last, prev>>

\* A free thread takes a leaf range and enters the second lambda.
StartNormalize(r) ==
    /\ pc = "normalizing"
    /\ Cardinality(running) < NumThreads
    /\ r \in pending
    /\ pending' = pending \ {r}
    /\ running' = running \cup {[range |-> r, i |-> r.begin]}
    /\ tasksStarted' = TRUE
    /\ UNCHANGED <<m_grid, m_scaleFactor, m_summary, voxels, pc, ntasks, ranges,
                   value_range, scale, sampleGrid_ret, wr1, wr2, lastDest, pre, last, prev>>

\* One iteration of the loop of the second lambda, in the given task.
NormalizeOne(task) ==
    /\ pc = "normalizing"
    /\ task \in running
    /\ voxels' = Normalize(voxels, value_range, task.i)
    /\ wr2' = [wr2 EXCEPT ![task.i] = @ + 1]
    /\ running' = (running \ {task}) \cup
                  (IF task.i + 1 < task.range.end THEN {[task EXCEPT !.i = @ + 1]}
                   ELSE {})
    /\ UNCHANGED <<m_grid, m_scaleFactor, m_summary, pc, pending, ntasks, ranges,
                   value_range, scale, sampleGrid_ret, tasksStarted, wr1, lastDest, pre, last, prev>>

\* The second parallel_for has joined.  sampleVolume and sampleGrid both flow off
\* their end without a return statement, so the value returned is undefined;
\* fillTextureBuffer discards it and publishes the range and the scale.
FillReturn ==
    /\ pc = "normalizing"
    /\ pending = {}
    /\ running = {}
    /\ LET post == Publish(m_summary, value_range, scale, m_scaleFactor) IN
        /\ m_summary' = post
        /\ last' = Outcome(post, voxels)
    /\ sampleGrid_ret' \in {"true", "false"}
    /\ pc' = "idle"
    /\ ntasks' = 0
    /\ value_range' = ValueRange_default
    /\ scale' = <<Int2F(0), Int2F(0), Int2F(0)>>
    /\ UNCHANGED <<m_grid, m_scaleFactor, voxels, pending, running, ranges,
                   tasksStarted, wr1, wr2, lastDest, pre, prev>>

Next ==
    \/ \E k \in ScaleFactors : setScaleFactor(k)
    \/ reset
    \/ FillNull
    \/ FillEmptyBBox
    \/ FillEmptyDomain
    \/ FillBegin
    \/ \E bbox \in pending, axis \in 1 .. 3, cut \in 0 .. MaxDim : SplitBox(bbox, axis, cut)
    \/ \E t \in Threads, bbox \in pending : StartSample(t, bbox)
    \/ \E task \in running : SampleCell(task)
    \/ JoinAndMerge
    \/ \E r \in pending : SplitRange(r)
    \/ \E r \in pending : StartNormalize(r)
    \/ \E task \in running : NormalizeOne(task)
    \/ FillReturn

Spec == Init /\ [][Next]_vars

\* ------------------------------------------------- ValueRange on its own
\* SpecRange drives three FloatRange accumulators, as a parallel_for on three
\* threads would own them, with arbitrary addValue calls starting from the
\* default-constructed range, and runs the merge loop of sampleVolume on them.
\* ranges holds the three accumulators and value_range the result of the loop;
\* the volume is idle and plays no part.
SampleValues == {Int2F(v) : v \in (0 - MaxSample) .. MaxSample}

InitRange ==
    /\ ranges = <<ValueRange_default, ValueRange_default, ValueRange_default>>
    /\ value_range = ValueRange_default
    /\ m_grid = [meta |-> ValidMeta, field |-> Field(0, Flat)]
    /\ m_scaleFactor = Num(1, 1)
    /\ m_summary = oiVolumeSummary(0, 0, 0, 0, TextureFormat)
    /\ voxels = [i \in 0 .. BufLen(0, 0, 0) - 1 |-> Sentinel]
    /\ pc = "idle"
    /\ pending = {}
    /\ ntasks = 0
    /\ running = {}
    /\ scale = <<Int2F(0), Int2F(0), Int2F(0)>>
    /\ sampleGrid_ret = "none"
    /\ tasksStarted = FALSE
    /\ wr1 = [i \in 0 .. BufLen(0, 0, 0) - 1 |-> 0]
    /\ wr2 = [i \in 0 .. BufLen(0, 0, 0) - 1 |-> 0]
    /\ pre = oiVolumeSummary(0, 0, 0, 0, TextureFormat)
    /\ lastDest = "none"
    /\ last = NoCall
    /\ prev = NoCall

\* this_thread_range.addValue(sample_value) on accumulator i.
RangeAddValue(i, value) ==
    /\ ranges' = [ranges EXCEPT ![i] = addValue(@, value)]
    /\ UNCHANGED <<m_grid, m_scaleFactor, m_summary, voxels, pc, pending, ntasks,
                   running, value_range, scale, sampleGrid_ret, tasksStarted, wr1, wr2,
                   lastDest, pre, last, prev>>

\* out_value_range = FloatRange(); then the merge loop over the accumulators.
RangeMerge ==
    /\ value_range' = MergeRanges(ranges)
    /\ UNCHANGED <<m_grid, m_scaleFactor, m_summary, voxels, pc, pending, ntasks,
                   running, ranges, scale, sampleGrid_ret, tasksStarted, wr1, wr2,
                   lastDest, pre, last, prev>>

NextRange ==
    \/ \E i \in 1 .. 3, value \in SampleValues : RangeAddValue(i, value)
    \/ RangeMerge

SpecRange == InitRange /\ [][NextRange]_vars

\* ------------------------------------------------------------------ claims
W == m_summary.width
H == m_summary.height
D == m_summary.depth

Cells == {c \in (0 .. W - 1) \X (0 .. H - 1) \X (0 .. D - 1) : TRUE}
LatticeSlots == 0 .. W * H * D * 4 - 1

BBoxEmpty == empty(getIndexSpaceBoundingBox(m_grid))
ZeroDim == W = 0 \/ H = 0 \/ D = 0

\* The last fillTextureBuffer call passed a buffer and has returned.
Done == pc = "idle" /\ lastDest = "buffer"
Failed == Done /\ (BBoxEmpty \/ ZeroDim)
Success == Done /\ ~BBoxEmpty /\ ~ZeroDim

\* The raw sample of the voxel that slot i belongs to.
CellOf(i) == Coord3((i \div 4) % W, ((i \div 4) \div W) % H, (i \div 4) \div (W * H))
Raw(i) == sampling_func(m_grid, CellOf(i))
RawSamples == {sampling_func(m_grid, c) : c \in Cells}

LessEq(x, y) == x = y \/ Less(x, y)
IsMin(v, S) == v \in S /\ \A u \in S : LessEq(v, u)
IsMax(v, S) == v \in S /\ \A u \in S : LessEq(u, v)

\* C1: when a fill on a non-empty box and a lattice with all extents >= 1 has
\* completed, every one of the W*H*D*4 slots has been written by the sampling
\* pass, and the four slots of every voxel (x,y,z), at offsets
\* (x + y*W + z*W*H)*4 + c, hold the same value.
C1_AllSlotsWrittenChannelsEqual ==
    Success =>
        /\ \A i \in LatticeSlots : wr1[i] >= 1
        /\ \A c \in Cells : \A ch \in 0 .. 3 :
              voxels[(c[1] + c[2] * W + c[3] * W * H) * 4 + ch]
                = voxels[(c[1] + c[2] * W + c[3] * W * H) * 4]

C1_Witness ==
    /\ Success
    /\ W * H * D = 4
    /\ Cardinality({voxels[i] : i \in LatticeSlots}) >= 3

\* C2: after a successful fill whose raw samples are not all equal, every slot
\* holds a value in [0,1], some slot holds exactly 0 and some slot exactly 1.
C2_RangeSoundness ==
    (Success /\ Cardinality(RawSamples) > 1) =>
        /\ \A i \in LatticeSlots :
              LessEq(Int2F(0), voxels[i]) /\ LessEq(voxels[i], Int2F(1))
        /\ \E i \in LatticeSlots : voxels[i] = Int2F(0)
        /\ \E i \in LatticeSlots : voxels[i] = Int2F(1)

\* C3: after a successful fill the summary's min_value is the minimum and its
\* max_value the maximum of the raw samples over all lattice cells.
C3_PublishedRangeIsSampleRange ==
    Success =>
        /\ IsMin(m_summary.min_value, RawSamples)
        /\ IsMax(m_summary.max_value, RawSamples)

RangeAndScale(summary) ==
    <<summary.min_value, summary.max_value, summary.x_scale, summary.y_scale,
      summary.z_scale>>

\* C4: a fill that fails because the resolved box is empty or the lattice has a
\* zero dimension leaves min_value, max_value, x_scale, y_scale and z_scale as
\* they were before the call.
C4_FailedFillKeepsSummary ==
    Failed => RangeAndScale(m_summary) = RangeAndScale(pre)

\* C5: a fill on an empty resolved box or on a lattice with a zero dimension
\* writes no slot of the destination buffer (it still holds the caller's sentinel
\* everywhere) and starts no worker task of either pass.
C5_FailedFillWritesNothing ==
    Failed =>
        /\ \A i \in Slots : voxels[i] = Sentinel /\ wr1[i] = 0 /\ wr2[i] = 0
        /\ ~tasksStarted

C5_Witness ==
    /\ Failed
    /\ ~m_grid.meta.hasMax
    /\ ~ZeroDim

\* C6: every fill yields a status: failure exactly when the destination is null,
\* the resolved box is empty or the lattice has a zero dimension, and success
\* (a defined true) otherwise.
C6_StatusDefined ==
    (pc = "idle" /\ lastDest # "none") =>
        sampleGrid_ret = (IF lastDest = "null" \/ BBoxEmpty \/ ZeroDim
                          THEN "false" ELSE "true")

\* C7: when the reduced range has max = min, no slot ends as NaN or infinity:
\* every slot holds a finite number.
C7_DegenerateRangeDefined ==
    (Success /\ m_summary.min_value = m_summary.max_value) =>
        \A i \in LatticeSlots : voxels[i].k = "num"

\* The result of running the whole lattice as one task on one thread.
RECURSIVE FoldRange(_, _)
FoldRange(acc, i) ==
    IF i >= W * H * D THEN acc
    ELSE FoldRange([m_min |-> std_min(acc.m_min, Raw(i * 4)),
                    m_max |-> std_max(acc.m_max, Raw(i * 4))], i + 1)

SerialRange == FoldRange([m_min |-> numeric_limits_max, m_max |-> numeric_limits_min], 0)

SerialBuffer ==
    [i \in Slots |->
        IF i \in LatticeSlots
        THEN FDiv(FSub(Raw(i), SerialRange.m_min),
                  FSub(SerialRange.m_max, SerialRange.m_min))
        ELSE Sentinel]

AtJoin == pc = "sampling" /\ pending = {} /\ running = {} /\ tasksStarted

\* C8: whatever the partition of the lattice, the assignment of partitions to
\* threads and the interleaving of their steps, the range merged at the join of
\* the first pass and the buffer and range left by the fill are those of the
\* serial run.
C8_ScheduleIndependent ==
    /\ AtJoin =>
          /\ MergeFrom([m_min |-> numeric_limits_max, m_max |-> numeric_limits_min],
                       ranges, 1) = SerialRange
          /\ \A i \in LatticeSlots : voxels[i] = Raw(i)
    /\ pc = "normalizing" => value_range = SerialRange
    /\ Success =>
          /\ voxels = SerialBuffer
          /\ m_summary.min_value = SerialRange.m_min
          /\ m_summary.max_value = SerialRange.m_max

C8_Witness ==
    /\ AtJoin
    /\ Len(ranges) = NumThreads
    /\ ranges[1] # ranges[2]
    /\ W * H * D = 4

\* C9: two successive fills into the same buffer with the same scale factor leave
\* the same buffer contents and the same min_value, max_value, x_scale, y_scale
\* and z_scale.
C9_Idempotent ==
    (pc = "idle" /\ last.state = "done" /\ prev.state = "done"
        /\ last.factor = prev.factor) =>
        /\ last.voxels = prev.voxels
        /\ RangeAndScale(last.post) = RangeAndScale(prev.post)

C9_Witness ==
    /\ Success
    /\ last.state = "done"
    /\ prev.state = "done"
    /\ last.factor = prev.factor
    /\ last.factor = Num(2, 1)
    /\ Cardinality(RawSamples) > 1
    /\ last.voxels = voxels

\* The world-space extents of the stored bounds: the scales reported at k = 1.
WorldExtent(axis) ==
    (m_grid.meta.file_bbox_max[axis] - m_grid.meta.file_bbox_min[axis])
        * m_grid.meta.voxelSize

\* C10: after a successful fill, x_scale, y_scale and z_scale are the world-space
\* extents of the resolved box times the factor of the most recent setScaleFactor
\* call before the fill (1 when there was none).
C10_ScaleIsExtentTimesFactor ==
    Success =>
        /\ m_summary.x_scale = Num(WorldExtent(1) * last.factor.n, last.factor.d)
        /\ m_summary.y_scale = Num(WorldExtent(2) * last.factor.n, last.factor.d)
        /\ m_summary.z_scale = Num(WorldExtent(3) * last.factor.n, last.factor.d)

C10_Witness ==
    /\ Success
    /\ prev.state = "done"
    /\ prev.factor = Num(2, 1)
    /\ last.factor = Num(1, 2)
    /\ m_scaleFactor = Num(1, 2)

\* The orders in which three accumulators can be merged.
Orders3 == {p \in [1 .. 3 -> 1 .. 3] : \A i, j \in 1 .. 3 : i # j => p[i] # p[j]}

\* C12: for three ranges built from the default-constructed range by zero or
\* more addValue calls, merging them in any order and in either grouping gives
\* the (min,max) of the sequential reduction that starts from a
\* default-constructed range.
C12_MergeAssociativeCommutative ==
    \A p \in Orders3 :
        LET A == ranges[p[1]]
            B == ranges[p[2]]
            C == ranges[p[3]]
        IN  /\ merge(merge(A, B), C) = MergeRanges(ranges)
            /\ merge(A, merge(B, C)) = MergeRanges(ranges)

\* The union of two ranges.
UnionRange(A, B) ==
    [m_min |-> std_min(getMin(A), getMin(B)), m_max |-> std_max(getMax(A), getMax(B))]

\* C16: merging A into a copy of B gives the union range
\* (min(A.min, B.min), max(A.max, B.max)); when A or B is the default-constructed
\* range the merge gives the other range unchanged.
C16_MergeIsUnion ==
    \A i, j \in 1 .. 3 :
        LET A == ranges[i]
            B == ranges[j]
        IN  /\ merge(A, B) = UnionRange(A, B)
            /\ A = ValueRange_default => merge(A, B) = B
            /\ B = ValueRange_default => merge(A, B) = A

\* The last fillTextureBuffer call passed no buffer and has returned.
NullReturned == pc = "idle" /\ lastDest = "null"

\* C11: a fill called with a null destination returns before the bounding box is
\* resolved or anything is sampled (sampleGrid is not called), starts no worker
\* task, writes no slot, and leaves every summary field and the stored scale
\* factor as they were.
C11_NullFillDoesNothing ==
    /\ [](NullReturned =>
            /\ sampleGrid_ret = "none"
            /\ ~tasksStarted
            /\ pending = {} /\ running = {}
            /\ \A i \in Slots : wr1[i] = 0 /\ wr2[i] = 0
            /\ m_summary = pre)
    /\ [][FillNull =>
            /\ m_summary' = m_summary
            /\ m_scaleFactor' = m_scaleFactor
            /\ voxels' = voxels]_vars

C11_Witness ==
    /\ NullReturned
    /\ last.state = "done"
    /\ m_summary = last.post
    /\ m_summary.max_value = Int2F(3)
    /\ m_scaleFactor = Num(2, 1)
    /\ last.factor = Num(1, 2)

\* The cells of a box and the buffer offsets the first lambda writes for it.
CellsOf(bbox) ==
    (bbox.min[1] .. bbox.max[1]) \X (bbox.min[2] .. bbox.max[2])
        \X (bbox.min[3] .. bbox.max[3])
OffsetsOf(bbox) ==
    UNION {WrittenBy(linear_index(SummaryExtents, c)) : c \in CellsOf(bbox)}
IndicesOf(r) == r.begin .. r.end - 1

\* The partitions of the running parallel_for: not yet started, or in execution.
SamplingBoxes == pending \cup {task.bbox : task \in running}
NormalizeRanges == pending \cup {task.range : task \in running}

\* C13: in the sampling pass the offset sets of any two distinct partitions are
\* disjoint, in the normalization pass the index sub-ranges of any two distinct
\* partitions are disjoint, no slot is written twice in a pass, and when the fill
\* has completed every lattice slot has been written exactly once by each pass.
C13_NoSlotWrittenTwice ==
    /\ \A i \in Slots : wr1[i] <= 1 /\ wr2[i] <= 1
    /\ pc = "sampling" =>
          \A a, b \in SamplingBoxes : a # b => OffsetsOf(a) \cap OffsetsOf(b) = {}
    /\ pc = "normalizing" =>
          \A a, b \in NormalizeRanges : a # b => IndicesOf(a) \cap IndicesOf(b) = {}
    /\ Success => \A i \in LatticeSlots : wr1[i] = 1 /\ wr2[i] = 1

C13_Witness ==
    /\ pc = "sampling"
    /\ Cardinality(running) = 2
    /\ \A task \in running : task.cur # task.bbox.min
    /\ last = InFlight
    /\ prev.state = "done"

\* C14: the passes of a fill are ordered by the joins.  While the sampling pass
\* runs no slot has been normalized; the step into the normalization pass is
\* taken only when no sampling partition is pending or running and every lattice
\* slot holds its raw value, and it sets the global range to the merge of every
\* per-thread range; while the normalization pass runs the global range does
\* not change, every slot already normalized holds unlerp(min, max, raw) for
\* that one range and every other slot still holds its raw value.
C14_PassesOrderedByJoins ==
    /\ [](/\ pc = "sampling" => \A i \in Slots : wr2[i] = 0
          /\ pc = "normalizing" =>
                \A i \in LatticeSlots :
                    /\ wr1[i] = 1
                    /\ wr2[i] = 0 => voxels[i] = Raw(i)
                    /\ wr2[i] = 1 =>
                          voxels[i] = unlerp(getMin(value_range), getMax(value_range),
                                             Raw(i)))
    /\ [][/\ (pc = "sampling" /\ pc' = "normalizing") =>
                /\ pending = {} /\ running = {}
                /\ \A i \in LatticeSlots : wr1[i] = 1 /\ voxels[i] = Raw(i)
                /\ value_range' = MergeFrom(ValueRange_default, ranges, 1)
          /\ (pc = "normalizing" /\ pc' = "normalizing") =>
                value_range' = value_range]_vars

C14_Witness ==
    /\ pc = "normalizing"
    /\ Cardinality(running) = 2
    /\ \E i \in LatticeSlots : wr2[i] = 1 /\ voxels[i] # Raw(i)
    /\ \E i \in LatticeSlots : wr2[i] = 0
    /\ getMin(value_range) = Int2F(0 - 1)
    /\ getMax(value_range) = Int2F(1)

\* C15: during the sampling pass no two tasks in execution use the same
\* accumulator and every task uses an accumulator that exists; a step changes
\* ranges only by creating the next thread's accumulator or by adding the sample
\* of a running task to the accumulator of that task's own thread; and the merge
\* loop reads the accumulators (and sets the global range) only when no sampling
\* partition is pending or running.
C15_AccumulatorsThreadOwned ==
    /\ [](pc = "sampling" =>
            /\ Len(ranges) <= NumThreads
            /\ \A a \in running : a.thread \in 1 .. Len(ranges)
            /\ \A a, b \in running : a # b => a.thread # b.thread)
    /\ [][/\ (pc = "sampling" /\ pc' = "sampling" /\ ranges' # ranges) =>
                \/ ranges' = Append(ranges, ValueRange_default)
                \/ \E task \in running :
                      ranges' = [ranges EXCEPT ![task.thread] =
                                    addValue(@, sampling_func(m_grid, task.cur))]
          /\ (pc = "sampling" /\ (pc' # "sampling" \/ value_range' # value_range)) =>
                pending = {} /\ running = {}]_vars

C15_Witness ==
    /\ pc = "sampling"
    /\ Cardinality(running) = 2
    /\ Len(ranges) = 2
    /\ ranges[1] # ValueRange_default
    /\ ranges[2] # ValueRange_default
    /\ ranges[1] # ranges[2]

\* The stored metadata of the volume's grid, and whether its lookups succeed
\* and whether a stored bound has a sentinel component.
Meta == m_grid.meta
LookupFails == ~Meta.hasMin \/ ~Meta.hasMax
MinHasSentinel == \E i \in 1 .. 3 : Meta.file_bbox_min[i] = IntMax
MaxHasSentinel == \E i \in 1 .. 3 : Meta.file_bbox_max[i] = IntMin

\* C17: once a fill with a buffer has resolved the box, the box is the empty
\* box when a lookup fails, when some axis of file_bbox_min is the integer
\* maximum or when some axis of file_bbox_max is the integer minimum, and is
\* exactly {file_bbox_min, file_bbox_max} in every other case.
C17_ResolverTotal ==
    lastDest = "buffer" =>
        getIndexSpaceBoundingBox(m_grid) =
            (IF LookupFails \/ MinHasSentinel \/ MaxHasSentinel
             THEN CoordBBox_default
             ELSE CoordBBox(Meta.file_bbox_min, Meta.file_bbox_max))

C17_Witness ==
    /\ Done
    /\ ~LookupFails
    /\ ~MinHasSentinel
    /\ Meta.file_bbox_max[2] = IntMin
    /\ sampleGrid_ret = "false"
    /\ ~tasksStarted

\* C18: the box a fill has resolved is the empty sentinel or has min <= max on
\* every axis.
C18_ResolvedBoxWellFormed ==
    lastDest = "buffer" =>
        LET bbox == getIndexSpaceBoundingBox(m_grid) IN
            \/ bbox = CoordBBox_default
            \/ \A i \in 1 .. 3 : bbox.min[i] <= bbox.max[i]

\* The summary fields fixed at construction.
Counts(summary) ==
    <<summary.voxel_count, summary.width, summary.height, summary.depth,
      summary.texture_format>>

\* C19: a step that changes the stored scale factor changes nothing else: the
\* summary, the buffer and the state of both passes stay as they are and no
\* task is started.  No step of any operation (setScaleFactor, reset, fill)
\* changes voxel_count, width, height, depth or texture_format, which are
\* width * height * depth, the constructor's extents and 20.
C19_SetScaleFactorFrame ==
    /\ [](/\ m_summary.voxel_count = W * H * D
          /\ m_summary.texture_format = TextureFormat)
    /\ [][/\ m_scaleFactor' # m_scaleFactor =>
                UNCHANGED <<m_summary, voxels, pc, pending, ntasks, running, ranges,
                            value_range, scale, sampleGrid_ret, tasksStarted, wr1, wr2>>
          /\ reset => UNCHANGED <<m_summary, m_scaleFactor, voxels>>
          /\ Counts(m_summary') = Counts(m_summary)]_vars

C19_Witness ==
    /\ Success
    /\ last.factor = Num(2, 1)
    /\ m_scaleFactor = Num(1, 2)
    /\ m_summary = last.post
    /\ m_summary.x_scale = Num(WorldExtent(1) * 2, 1)
    /\ m_summary.x_scale # Int2F(0)

\* The offset of channel ch of cell c.
Offset(c, ch) == linear_index(SummaryExtents, c) + ch

\* C20: the domain handed to the sampling pass is [0,W-1]x[0,H-1]x[0,D-1] and
\* the offset mapping (x + y*W + z*W*H)*4 + c is injective over its cells and
\* channels; every offset of every cell of a partition not yet started, and
\* every offset a running task writes, lies in 0 .. W*H*D*4 - 1; every index the
\* normalization pass visits lies in that range, and the indices of its
\* partitions together with the indices already normalized are exactly
\* 0 .. W*H*D*4 - 1.
C20_OffsetsInBounds ==
    /\ (pc = "sampling" /\ pending = {domain(SummaryExtents)}) =>
          /\ CellsOf(domain(SummaryExtents)) = Cells
          /\ \A c1, c2 \in Cells : \A ch1, ch2 \in 0 .. 3 :
                Offset(c1, ch1) = Offset(c2, ch2) => (c1 = c2 /\ ch1 = ch2)
    /\ pc = "sampling" =>
          /\ \A b \in pending : OffsetsOf(b) \subseteq LatticeSlots
          /\ \A task \in running :
                /\ task.cur \in Cells
                /\ \A ch \in 0 .. 3 : Offset(task.cur, ch) \in LatticeSlots
    /\ pc = "normalizing" =>
          /\ \A task \in running : task.i \in LatticeSlots
          /\ UNION {IndicesOf(r) : r \in NormalizeRanges}
                \cup {i \in Slots : wr2[i] = 1} = LatticeSlots
    /\ Success => \A i \in Slots : wr2[i] = (IF i \in LatticeSlots THEN 1 ELSE 0)

C20_Witness ==
    /\ pc = "sampling"
    /\ W = 2 /\ H = 1 /\ D = 2
    /\ \E task \in running :
          /\ task.cur = Coord3(W - 1, H - 1, D - 1)
          /\ Offset(task.cur, 3) = W * H * D * 4 - 1

====
